---- MODULE Spec2Model ----
(***************************************************************************)
(* Model of the school timetable to iCalendar generator (src/main.py), of   *)
(* the extraction of events from the text of a PDF (src/pdf_to_json.py)    *)
(* and of the interactive assistant (src/create_schedule_json.py).         *)
(*                                                                         *)
(* Text is modelled as a sequence of one-character strings, so that        *)
(* splitting, joining, formatting and parsing are computed, not assumed.   *)
(* A JSON value is a record [k, n, s]: k is its Python type, n its number  *)
(* (a float carries twice its value, so x.5 is representable), s its text. *)
(* A datetime is [ord, sec]: the proleptic Gregorian ordinal of its date   *)
(* (date.toordinal()) and the second of the day.                           *)
(***************************************************************************)
EXTENDS Integers, Sequences, FiniteSets, TLC

VARIABLES
    pc,           \* position of the entry point being run
    clock,        \* the machine's clock, as a UTC instant [ord, sec]
    tzoff,        \* offset of the machine's local time from UTC, in seconds
    datos_clase,  \* generar_icalendar: its argument
    hoy,          \* generar_icalendar: first clock reading (line 226)
    fecha_base,   \* generar_icalendar: next Monday (line 230)
    ahora,        \* obtener_timestamp: its own clock reading (line 157)
    ical,         \* generar_icalendar: what the call produced
    evento,       \* validar_evento: its argument
    verdict,      \* validar_evento: what the call produced
    idx,          \* main: which class the current step handles (1 = 7d, 2 = 7e)
    archivos,     \* main: the input file of each class
    datos,        \* main: datos_7d, datos_7e
    icals,        \* main: ical_7d, ical_7e
    exito,        \* main: exito_7d, exito_7e
    disco,        \* main: the output file of each class
    exit_code,    \* main: the value main returned
    texto,          \* extraer_eventos_desde_texto: its argument
    lineas,         \* extraer_eventos_desde_texto: texto.split('\n')
    i_linea,        \* extraer_eventos_desde_texto: lines the loop has handled
    dia_actual,     \* extraer_eventos_desde_texto: day of the last day header
    periodo_actual, \* extraer_eventos_desde_texto: period of the last time header
    eventos_pdf,    \* extraer_eventos_desde_texto: the list eventos
    marcas,         \* history: the line at which each event was appended
    resultado,      \* extraer_eventos_desde_texto: what the call returned
    clase_json,     \* assistant: the class identifier entered
    entrada,        \* assistant: locals dia, periodo, asignatura, aula of agregar_evento
    eventos_json,   \* assistant: the list eventos of main
    interrumpido,   \* assistant: the position at which Ctrl+C arrived ("" if none)
    archivo_json,   \* assistant: the file <clase>.json
    codigo          \* assistant: the exit status of the script

genVars  == <<datos_clase, hoy, fecha_base, ahora, ical>>
valVars  == <<evento, verdict>>
mainVars == <<idx, archivos, datos, icals, exito, disco, exit_code>>
pdfVars  == <<texto, lineas, i_linea, dia_actual, periodo_actual, eventos_pdf, marcas,
              resultado>>
asisVars == <<clase_json, entrada, eventos_json, interrumpido, archivo_json, codigo>>

----------------------------------------------------------------------------
(* Bounds of the model *)

\* longest event list of a schedule
MaxEvents == 2
\* number of consecutive generation days explored
NowDays == 14
\* most seconds the clock advances between two readings of one call
MaxTick == 1

\* date.toordinal() of the first generation day explored (2024-02-24)
NowBase == 738940

(* Program constants *)

DIAS_CURSO_ESCOLAR == 180

----------------------------------------------------------------------------
(* JSON / Python values *)

IntV(i)   == [k |-> "int",   n |-> i, s |-> <<>>]
FloatV(t) == [k |-> "float", n |-> t, s |-> <<>>]
StrV(t)   == [k |-> "str",   n |-> 0, s |-> t]
NullV     == [k |-> "null",  n |-> 0, s |-> <<>>]
\* a key that the dictionary does not hold
AbsentV   == [k |-> "absent", n |-> 0, s |-> <<>>]

\* twice the numeric value of an int or float
Twice(v) == IF v.k = "int" THEN 2 * v.n ELSE v.n

DIGITS == <<"0", "1", "2", "3", "4", "5", "6", "7", "8", "9">>

RECURSIVE Str(_)
\* str(n) / f"{n}" of a non-negative int
Str(i) == IF i < 10 THEN <<DIGITS[i + 1]>>
          ELSE Str(i \div 10) \o <<DIGITS[(i % 10) + 1]>>

\* f"{n:02d}" of a non-negative int
Fmt02d(i) == IF i < 10 THEN <<"0">> \o Str(i) ELSE Str(i)

\* f"{v}" of a JSON value
PyStr(v) ==
    CASE v.k = "str"   -> v.s
      [] v.k = "int"   -> IF v.n < 0 THEN <<"-">> \o Str(0 - v.n) ELSE Str(v.n)
      [] v.k = "float" -> Str(v.n \div 2) \o <<".", IF v.n % 2 = 0 THEN "0" ELSE "5">>
      [] OTHER         -> <<"N", "o", "n", "e">>

RECURSIVE SplitFrom(_, _, _, _)
\* str.split(sep) for a one-character sep; cur is the part being read
SplitFrom(t, sep, i, cur) ==
    IF i > Len(t) THEN <<cur>>
    ELSE IF t[i] = sep THEN <<cur>> \o SplitFrom(t, sep, i + 1, <<>>)
    ELSE SplitFrom(t, sep, i + 1, Append(cur, t[i]))

Split(t, sep) == SplitFrom(t, sep, 1, <<>>)

RECURSIVE Join(_, _)
\* sep.join(parts); sep is text
Join(parts, sep) ==
    IF Len(parts) = 0 THEN <<>>
    ELSE IF Len(parts) = 1 THEN parts[1]
    ELSE parts[1] \o sep \o Join(Tail(parts), sep)

DigitValue(c) == CHOOSE d \in 0..9 : DIGITS[d + 1] = c

RECURSIVE ParseInt(_)
\* int(text) of a run of decimal digits
ParseInt(t) ==
    IF Len(t) = 0 THEN 0
    ELSE 10 * ParseInt(SubSeq(t, 1, Len(t) - 1)) + DigitValue(t[Len(t)])

----------------------------------------------------------------------------
(* datetime *)

\* datetime.weekday(): Monday is 0
Weekday(t) == (t.ord + 6) % 7

\* fecha + timedelta(days=d)
AddDays(t, d) == [ord |-> t.ord + d, sec |-> t.sec]

\* fecha + timedelta(seconds=s), s >= 0
AddSeconds(t, s) ==
    [ord |-> t.ord + ((t.sec + s) \div 86400),
     sec |-> (t.sec + s) % 86400]

\* .year, .month, .day of a datetime
Ymd(t) ==
    LET z   == t.ord + 305
        era == z \div 146097
        doe == z % 146097
        yoe == (doe - (doe \div 1460) + (doe \div 36524) - (doe \div 146096)) \div 365
        doy == doe - (365 * yoe + (yoe \div 4) - (yoe \div 100))
        mp  == (5 * doy + 2) \div 153
        d   == doy - ((153 * mp + 2) \div 5) + 1
        m   == IF mp < 10 THEN mp + 3 ELSE mp - 9
    IN  [year  |-> yoe + era * 400 + (IF m <= 2 THEN 1 ELSE 0),
         month |-> m,
         day   |-> d]

\* datetime.now(): the naive local wall-clock time
Now(utc, offset) == AddSeconds(utc, offset)

----------------------------------------------------------------------------
(* Constant tables, src/main.py lines 25-81 *)

TIMEZONE == <<"E", "u", "r", "o", "p", "e", "/", "B", "e", "r", "l", "i", "n">>

PRODID_PREFIX == <<"-", "/", "/", "H", "o", "r", "a", "r", "i", "o", "E", "s", "c", "o", "l", "a", "r", "/", "/", "C", "l", "a", "s", "e">>

\* indexed by dia: the source's lists hold an unused entry at index 0
DIAS_SEMANA ==
    [d \in 0..5 |-> << <<>>,
                     <<"L", "u", "n", "e", "s">>,
                     <<"M", "a", "r", "t", "e", "s">>,
                     <<"M", "i", "é", "r", "c", "o", "l", "e", "s">>,
                     <<"J", "u", "e", "v", "e", "s">>,
                     <<"V", "i", "e", "r", "n", "e", "s">> >>[d + 1]]

DIAS_RRULE ==
    [d \in 0..5 |-> << <<>>, <<"M", "O">>, <<"T", "U">>, <<"W", "E">>, <<"T", "H">>, <<"F", "R">> >>[d + 1]]

\* indexed from 0, as the source's list
HORARIOS ==
    [i \in 0..11 |->
      << [inicio |-> <<"0", "8", ":", "1", "0">>, fin |-> <<"0", "8", ":", "5", "5">>],
         [inicio |-> <<"0", "8", ":", "5", "5">>, fin |-> <<"0", "9", ":", "4", "0">>],
         [inicio |-> <<"1", "0", ":", "0", "0">>, fin |-> <<"1", "0", ":", "4", "5">>],
         [inicio |-> <<"1", "0", ":", "4", "5">>, fin |-> <<"1", "1", ":", "3", "0">>],
         [inicio |-> <<"1", "1", ":", "4", "5">>, fin |-> <<"1", "2", ":", "3", "0">>],
         [inicio |-> <<"1", "2", ":", "3", "0">>, fin |-> <<"1", "3", ":", "1", "5">>],
         [inicio |-> <<"1", "3", ":", "3", "0">>, fin |-> <<"1", "4", ":", "1", "5">>],
         [inicio |-> <<"1", "4", ":", "1", "5">>, fin |-> <<"1", "5", ":", "0", "0">>],
         [inicio |-> <<"1", "5", ":", "0", "0">>, fin |-> <<"1", "5", ":", "4", "5">>],
         [inicio |-> <<"1", "5", ":", "4", "5">>, fin |-> <<"1", "6", ":", "3", "0">>],
         [inicio |-> <<"1", "6", ":", "3", "0">>, fin |-> <<"1", "7", ":", "1", "5">>],
         [inicio |-> <<"1", "7", ":", "1", "5">>, fin |-> <<"1", "8", ":", "0", "0">>] >>[i + 1]]

ASIGNATURAS_KEYS ==
    { <<"m">>,
      <<"d">>,
      <<"e">>,
      <<"g">>,
      <<"f">>,
      <<"l">>,
      <<"k", "u">>,
      <<"m", "u">>,
      <<"s", "w">>,
      <<"s", "m">>,
      <<"g", "e", "o">>,
      <<"n", "t", "b", "i", "o">>,
      <<"n", "t", "i", "n", "f">>,
      <<"n", "t", "i", "n", "f", "7">>,
      <<"n", "t", "p", "h">>,
      <<"e", "v">>,
      <<"k">>,
      <<"e", "t", "h">>,
      <<"q", "h", "u">>,
      <<"q", "h", "u", "6">>,
      <<"m", "i", "n", "t">>,
      <<"f", "i", "n", "t">>,
      <<"i", "n", "t", "f">>,
      <<"l", "i", "n", "t">>,
      <<"i", "n", "t", "l">>,
      <<"i", "n", "t", "m">>,
      <<"D", "a", "Z", "-", "p", "l", "u", "s", "7">>,
      <<"f", "f", "m", "m", "-", "g", "t", "a">>,
      <<"f", "f", "m", "d", "-", "g", "t", "a">>,
      <<"f", "f", "m", "e", "-", "g", "t", "a">>,
      <<"f", "f", "m", "e">>,
      <<"m", "i", "t", "t", "a", "g">> }

ASIGNATURAS ==
    [ key \in ASIGNATURAS_KEYS |->
        CASE key = <<"m">> ->
               <<"M", "a", "t", "e", "m", "á", "t", "i", "c", "a", "s">>
          [] key = <<"d">> ->
               <<"A", "l", "e", "m", "á", "n">>
          [] key = <<"e">> ->
               <<"I", "n", "g", "l", "é", "s">>
          [] key = <<"g">> ->
               <<"H", "i", "s", "t", "o", "r", "i", "a">>
          [] key = <<"f">> ->
               <<"F", "r", "a", "n", "c", "é", "s">>
          [] key = <<"l">> ->
               <<"L", "a", "t", "í", "n">>
          [] key = <<"k", "u">> ->
               <<"A", "r", "t", "e">>
          [] key = <<"m", "u">> ->
               <<"M", "ú", "s", "i", "c", "a">>
          [] key = <<"s", "w">> ->
               <<"D", "e", "p", "o", "r", "t", "e", "s">>
          [] key = <<"s", "m">> ->
               <<"D", "e", "p", "o", "r", "t", "e", "s">>
          [] key = <<"g", "e", "o">> ->
               <<"G", "e", "o", "g", "r", "a", "f", "í", "a">>
          [] key = <<"n", "t", "b", "i", "o">> ->
               <<"B", "i", "o", "l", "o", "g", "í", "a">>
          [] key = <<"n", "t", "i", "n", "f">> ->
               <<"I", "n", "f", "o", "r", "m", "á", "t", "i", "c", "a">>
          [] key = <<"n", "t", "i", "n", "f", "7">> ->
               <<"I", "n", "f", "o", "r", "m", "á", "t", "i", "c", "a">>
          [] key = <<"n", "t", "p", "h">> ->
               <<"F", "í", "s", "i", "c", "a">>
          [] key = <<"e", "v">> ->
               <<"R", "e", "l", "i", "g", "i", "ó", "n", " ", "E", "v", "a", "n", "g", "é", "l", "i", "c", "a">>
          [] key = <<"k">> ->
               <<"R", "e", "l", "i", "g", "i", "ó", "n", " ", "C", "a", "t", "ó", "l", "i", "c", "a">>
          [] key = <<"e", "t", "h">> ->
               <<"É", "t", "i", "c", "a">>
          [] key = <<"q", "h", "u">> ->
               <<"H", "o", "r", "a", " ", "d", "e", " ", "e", "s", "t", "u", "d", "i", "o">>
          [] key = <<"q", "h", "u", "6">> ->
               <<"H", "o", "r", "a", " ", "d", "e", " ", "e", "s", "t", "u", "d", "i", "o", " ", "6">>
          [] key = <<"m", "i", "n", "t">> ->
               <<"M", "I", "N", "T">>
          [] key = <<"f", "i", "n", "t">> ->
               <<"I", "n", "t", "e", "n", "s", "i", "v", "o", " ", "F", "r", "a", "n", "c", "é", "s">>
          [] key = <<"i", "n", "t", "f">> ->
               <<"I", "n", "t", "e", "n", "s", "i", "v", "o", " ", "F", "r", "a", "n", "c", "é", "s">>
          [] key = <<"l", "i", "n", "t">> ->
               <<"I", "n", "t", "e", "n", "s", "i", "v", "o", " ", "L", "a", "t", "í", "n">>
          [] key = <<"i", "n", "t", "l">> ->
               <<"I", "n", "t", "e", "n", "s", "i", "v", "o", " ", "L", "a", "t", "í", "n">>
          [] key = <<"i", "n", "t", "m">> ->
               <<"I", "n", "t", "e", "n", "s", "i", "v", "o", " ", "M", "a", "t", "e", "m", "á", "t", "i", "c", "a", "s">>
          [] key = <<"D", "a", "Z", "-", "p", "l", "u", "s", "7">> ->
               <<"A", "l", "e", "m", "á", "n", " ", "P", "l", "u", "s", " ", "7">>
          [] key = <<"f", "f", "m", "m", "-", "g", "t", "a">> ->
               <<"A", "c", "t", "i", "v", "i", "d", "a", "d", " ", "d", "e", "s", "p", "u", "é", "s", " ", "d", "e", " ", "c", "l", "a", "s", "e", "s">>
          [] key = <<"f", "f", "m", "d", "-", "g", "t", "a">> ->
               <<"A", "c", "t", "i", "v", "i", "d", "a", "d", " ", "d", "e", "s", "p", "u", "é", "s", " ", "d", "e", " ", "c", "l", "a", "s", "e", "s">>
          [] key = <<"f", "f", "m", "e", "-", "g", "t", "a">> ->
               <<"A", "c", "t", "i", "v", "i", "d", "a", "d", " ", "d", "e", "s", "p", "u", "é", "s", " ", "d", "e", " ", "c", "l", "a", "s", "e", "s">>
          [] key = <<"f", "f", "m", "e">> ->
               <<"A", "c", "t", "i", "v", "i", "d", "a", "d", " ", "d", "e", "s", "p", "u", "é", "s", " ", "d", "e", " ", "c", "l", "a", "s", "e", "s">>
          [] key = <<"m", "i", "t", "t", "a", "g">> ->
               <<"A", "l", "m", "u", "e", "r", "z", "o">> ]

----------------------------------------------------------------------------
(* Results of a call: what it returned, or the exception it raised *)

\* an exception is named with the line that raises it
Ret(v)      == [k |-> "ret",   v |-> v,     exc |-> ""]
Raise(e)    == [k |-> "raise", v |-> FALSE, exc |-> e]

RetNone     == [k |-> "none",    text |-> <<>>, exc |-> ""]
RetStr(t)   == [k |-> "str",     text |-> t,    exc |-> ""]
RaiseStr(e) == [k |-> "raise",   text |-> <<>>, exc |-> e]
Pending     == [k |-> "pending", text |-> <<>>, exc |-> ""]

----------------------------------------------------------------------------
(* formatear_fecha, obtener_timestamp *)

formatear_fecha(fecha, hora) ==
    LET partes  == Split(hora, ":")
        horas   == ParseInt(partes[1])
        minutos == ParseInt(partes[2])
    IN  Str(Ymd(fecha).year) \o Fmt02d(Ymd(fecha).month) \o Fmt02d(Ymd(fecha).day)
        \o <<"T">> \o Fmt02d(horas) \o Fmt02d(minutos) \o <<"0", "0">>

\* t is the reading datetime.now() gave inside obtener_timestamp
obtener_timestamp(t) ==
    Str(Ymd(t).year) \o Fmt02d(Ymd(t).month) \o Fmt02d(Ymd(t).day)
    \o <<"T">> \o Fmt02d(t.sec \div 3600) \o Fmt02d((t.sec \div 60) % 60)
    \o Fmt02d(t.sec % 60) \o <<"Z">>

----------------------------------------------------------------------------
(* validar_evento *)

campos_requeridos == {"dia", "periodo", "asignatura", "aula"}

\* 1 <= v <= hi raises TypeError unless v is a number
Comparable(v) == v.k \in {"int", "float"}

\* faulty variant of EnRango: the upper bound is excluded
EnRango_exclusivo(lo, v, hi) == 2 * lo <= Twice(v) /\ Twice(v) < 2 * hi

\* the chained comparison lo <= v <= hi of a number v
EnRango(lo, v, hi) == 2 * lo <= Twice(v) /\ Twice(v) <= 2 * hi

validar_evento(ev) ==
    IF \E campo \in campos_requeridos : ev[campo] = AbsentV THEN Ret(FALSE)
    ELSE IF ~Comparable(ev.dia) THEN Raise("TypeError@178")
    ELSE IF ~EnRango(1, ev.dia, 5) THEN Ret(FALSE)
    ELSE IF ~Comparable(ev.periodo) THEN Raise("TypeError@182")
    ELSE IF ~EnRango(1, ev.periodo, Cardinality(DOMAIN HORARIOS)) THEN Ret(FALSE)
    ELSE Ret(TRUE)

----------------------------------------------------------------------------
(* generar_icalendar *)

\* lines 295-305: the display name of a subject; .split exists on str only
nombre_asignatura(asignatura_abrev) ==
    IF asignatura_abrev.k # "str" THEN RaiseStr("AttributeError@296")
    ELSE LET partes_asignatura  == Split(asignatura_abrev.s, "/")
             nombres_asignatura ==
                 [i \in 1..Len(partes_asignatura) |->
                     IF partes_asignatura[i] \in ASIGNATURAS_KEYS
                     THEN ASIGNATURAS[partes_asignatura[i]]
                     ELSE partes_asignatura[i]]
         IN  RetStr(Join(nombres_asignatura, <<"/">>))

\* line 309
Uid(clase, dia_semana, periodo, dtstamp) ==
    <<"clase">> \o PyStr(clase) \o <<"-d">> \o PyStr(dia_semana) \o <<"p">>
    \o PyStr(periodo) \o <<"-">> \o dtstamp \o <<"@kkg-stundenplan.local">>

\* faulty variant of FechaEvento: dia counted from 0
FechaEvento_sin_resta(base, dia_semana) == AddDays(base, dia_semana.n)

\* line 285
FechaEvento(base, dia_semana) == AddDays(base, dia_semana.n - 1)

\* lines 288-289
Horario(periodo) == HORARIOS[periodo.n - 1]

\* lines 278-323: the block of one validated event, as [k, lines, exc]
VEvent(clase, ev, base, dtstamp, fecha_fin_curso) ==
    LET dia_semana == ev.dia
        periodo    == ev.periodo
        nombre     == nombre_asignatura(ev.asignatura)
    IN  IF periodo.k # "int"      \* list index of line 288
        THEN [k |-> "raise", lines |-> <<>>, exc |-> "TypeError@288"]
        ELSE IF nombre.k = "raise"
        THEN [k |-> "raise", lines |-> <<>>, exc |-> nombre.exc]
        ELSE IF dia_semana.k # "int"  \* list index of line 318
        THEN [k |-> "raise", lines |-> <<>>, exc |-> "TypeError@318"]
        ELSE
        LET fecha_evento == FechaEvento(base, dia_semana)
            hora_inicio  == Horario(periodo).inicio
            hora_fin     == Horario(periodo).fin
            dtstart      == formatear_fecha(fecha_evento, hora_inicio)
            dtend        == formatear_fecha(fecha_evento, hora_fin)
            uid          == Uid(clase, dia_semana, periodo, dtstamp)
        IN  [k |-> "lines", exc |-> "",
             lines |-> <<
               <<"BEGIN:VEVENT">>,
               <<"DTSTART;TZID=">> \o TIMEZONE \o <<":">> \o dtstart,
               <<"DTEND;TZID=">> \o TIMEZONE \o <<":">> \o dtend,
               <<"DTSTAMP:">> \o dtstamp,
               <<"UID:">> \o uid,
               <<"RRULE:FREQ=WEEKLY;WKST=MO;BYDAY=">> \o DIAS_RRULE[dia_semana.n]
                   \o <<";UNTIL=">> \o fecha_fin_curso,
               <<"SUMMARY:">> \o nombre.text,
               <<"LOCATION:">> \o PyStr(ev.aula),
               <<"DESCRIPTION:">> \o DIAS_SEMANA[dia_semana.n] \o <<" - Clase ">>
                   \o PyStr(clase),
               <<"END:VEVENT">> >>]

RECURSIVE Eventos(_, _, _, _, _, _)
\* lines 272-324: the loop from event i on; [k, lines, n, exc] with n the
\* value eventos_procesados gains
Eventos(clase, eventos, i, base, dtstamp, fecha_fin_curso) ==
    IF i > Len(eventos) THEN [k |-> "ok", lines |-> <<>>, n |-> 0, exc |-> ""]
    ELSE
    LET v == validar_evento(eventos[i]) IN
    IF v.k = "raise" THEN [k |-> "raise", lines |-> <<>>, n |-> 0, exc |-> v.exc]
    ELSE IF ~v.v THEN Eventos(clase, eventos, i + 1, base, dtstamp, fecha_fin_curso)
    ELSE
    LET b == VEvent(clase, eventos[i], base, dtstamp, fecha_fin_curso) IN
    IF b.k = "raise" THEN [k |-> "raise", lines |-> <<>>, n |-> 0, exc |-> b.exc]
    ELSE
    LET r == Eventos(clase, eventos, i + 1, base, dtstamp, fecha_fin_curso) IN
    IF r.k = "raise" THEN r
    ELSE [k |-> "ok", lines |-> b.lines \o r.lines, n |-> r.n + 1, exc |-> ""]

\* lines 214-223: the early returns (not datos_clase, not eventos)
SinDatos(d) == d.k = "none" \/ (d.clase = AbsentV /\ ~d.con_eventos)
SinEventos(d) == ~d.con_eventos \/ Len(d.eventos) = 0

\* faulty variant of DiasHastaLunes: a Monday keeps the same day
DiasHastaLunes_sin_ajuste(t) == (7 - Weekday(t)) % 7

\* lines 227-229
DiasHastaLunes(t) ==
    LET dias_hasta_lunes == (7 - Weekday(t)) % 7
    IN  IF dias_hasta_lunes = 0 THEN 7 ELSE dias_hasta_lunes

\* line 230
FechaBase(t) == AddDays(t, DiasHastaLunes(t))

\* faulty variant of FechaFinCurso: the length of the course is not added
FechaFinCurso_sin_sumar(t) ==
    Str(Ymd(t).year) \o Fmt02d(Ymd(t).month) \o Fmt02d(Ymd(t).day) \o <<"T235959Z">>

\* lines 233-234
FechaFinCurso(t) ==
    LET fecha_fin == AddDays(t, DIAS_CURSO_ESCOLAR)
    IN  Str(Ymd(fecha_fin).year) \o Fmt02d(Ymd(fecha_fin).month)
        \o Fmt02d(Ymd(fecha_fin).day) \o <<"T235959Z">>

\* lines 240-247
Encabezado(clase) ==
    << <<"BEGIN:VCALENDAR">>,
       <<"VERSION:2.0">>,
       <<"PRODID:">> \o PRODID_PREFIX \o <<" ">> \o PyStr(clase) \o <<"//ES">>,
       <<"CALSCALE:GREGORIAN">>,
       <<"METHOD:PUBLISH">>,
       <<"X-WR-CALNAME:Clase ">> \o PyStr(clase) >>

\* lines 250-269
ZonaHoraria ==
    << <<"BEGIN:VTIMEZONE">>,
       <<"TZID:">> \o TIMEZONE,
       <<"X-LIC-LOCATION:">> \o TIMEZONE,
       <<"BEGIN:DAYLIGHT">>,
       <<"TZOFFSETFROM:+0100">>,
       <<"TZOFFSETTO:+0200">>,
       <<"TZNAME:CEST">>,
       <<"DTSTART:19700329T020000">>,
       <<"RRULE:FREQ=YEARLY;BYMONTH=3;BYDAY=-1SU">>,
       <<"END:DAYLIGHT">>,
       <<"BEGIN:STANDARD">>,
       <<"TZOFFSETFROM:+0200">>,
       <<"TZOFFSETTO:+0100">>,
       <<"TZNAME:CET">>,
       <<"DTSTART:19701025T030000">>,
       <<"RRULE:FREQ=YEARLY;BYMONTH=10;BYDAY=-1SU">>,
       <<"END:STANDARD">>,
       <<"END:VTIMEZONE">> >>

CRLF == <<"\r", "\n">>

\* faulty variant of Resultado: the count of processed events is not checked
Resultado_sin_comprobar(r, lines) ==
    IF r.k = "raise" THEN RaiseStr(r.exc)
    ELSE RetStr(Join(lines, CRLF) \o CRLF)

\* lines 326-339, after the loop ended as r (an exception of the loop
\* propagates): None when no event was processed, else the joined text
Resultado(r, lines) ==
    IF r.k = "raise" THEN RaiseStr(r.exc)
    ELSE IF r.n = 0 THEN RetNone
    ELSE RetStr(Join(lines, CRLF) \o CRLF)

\* generar_icalendar(d), given its two clock readings: t1 at line 226 and t2
\* inside obtener_timestamp (line 237)
generar_icalendar(d, t1, t2) ==
    IF SinDatos(d) THEN RetNone
    ELSE IF SinEventos(d) THEN RetNone
    ELSE
    LET clase   == IF d.clase = AbsentV
                   THEN StrV(<<"U", "n", "k", "n", "o", "w", "n">>) ELSE d.clase
        dtstamp == obtener_timestamp(t2)
        r       == Eventos(clase, d.eventos, 1, FechaBase(t1), dtstamp,
                           FechaFinCurso(t1))
        lines   == Encabezado(clase) \o ZonaHoraria \o r.lines
                   \o << <<"END:VCALENDAR">> >>
    IN  Resultado(r, lines)

----------------------------------------------------------------------------
(* Inputs *)

Ev(d, p, a, au) == [dia |-> d, periodo |-> p, asignatura |-> a, aula |-> au]

A104 == StrV(<<"A", "1", "0", "4">>)

\* a room copied from a cell of two lines: "A104\nE02" in the JSON file
DosLineas == StrV(<<"A", "1", "0", "4", "\n", "E", "0", "2">>)

\* every record the data model calls valid, one subject and room
ValidEvents == { Ev(IntV(d), IntV(p), StrV(<<"m">>), A104) : d \in 1..5, p \in 1..12 }

\* well-formed and malformed records a JSON file can hold
SampleEvents ==
    { Ev(IntV(1), IntV(1), StrV(<<"m">>), A104),
      Ev(IntV(5), IntV(12), StrV(<<"f", "/", "l">>),
         StrV(<<"A", "1", "0", "4", "/", "E", "0", "2">>)),
      Ev(IntV(3), IntV(6), StrV(<<"x", "y", "z">>), A104),
      Ev(IntV(6), IntV(1), StrV(<<"m">>), A104),
      Ev(StrV(<<"1">>), IntV(1), StrV(<<"m">>), A104),
      Ev(IntV(4), IntV(3), NullV, A104),
      Ev(FloatV(5), IntV(1), StrV(<<"m">>), A104) }

EventLists ==
    UNION { [1..m -> SampleEvents] : m \in 0..MaxEvents }
    \cup { <<e>> : e \in ValidEvents }

Datos(c, evs) == [k |-> "dict", clase |-> c, con_eventos |-> TRUE, eventos |-> evs]
DatosNone == [k |-> "none", clase |-> AbsentV, con_eventos |-> FALSE, eventos |-> <<>>]

Clase7d == StrV(<<"7", "d">>)
Clase7e == StrV(<<"7", "e">>)

\* the arguments generar_icalendar is called with
Schedules ==
    { Datos(Clase7d, evs) : evs \in EventLists }
    \cup { DatosNone,
           [k |-> "dict", clase |-> AbsentV, con_eventos |-> FALSE, eventos |-> <<>>],
           [k |-> "dict", clase |-> Clase7d, con_eventos |-> FALSE, eventos |-> <<>>],
           Datos(AbsentV, << Ev(IntV(1), IntV(1), StrV(<<"m">>), A104) >>),
           Datos(Clase7d, << Ev(IntV(2), IntV(2), StrV(<<"d">>), DosLineas) >>) }

\* how far outside 1..5 and 1..12 the numbers of a raw record go
Margin == 2

DiaValues ==
    { IntV(i) : i \in (1 - Margin)..(5 + Margin) }
    \cup { FloatV(t) : t \in {1, 4, 5, 11} }
    \cup { AbsentV, NullV, StrV(<<"1">>) }

PeriodoValues ==
    { IntV(i) : i \in (1 - Margin)..(12 + Margin) }
    \cup { FloatV(t) : t \in {1, 24, 25} }
    \cup { AbsentV, NullV, StrV(<<"1">>) }

RawEvents ==
    { Ev(d, p, a, au) : d \in DiaValues, p \in PeriodoValues,
                        a \in {AbsentV, NullV, StrV(<<"m">>)},
                        au \in {AbsentV, A104} }

\* the clock when a run starts
Clocks == { [ord |-> NowBase + i, sec |-> s] : i \in 0..(NowDays - 1), s \in {0, 86399} }

\* a machine set to UTC, and one set to Europe/Berlin in winter
TzOffsets == {0, 3600}

NoTime    == [ord |-> 0, sec |-> 0]
NoVerdict == [k |-> "pending", v |-> FALSE, exc |-> ""]
NoEvento  == Ev(AbsentV, AbsentV, AbsentV, AbsentV)


Clases == <<"7d", "7e">>

NoFile == [existe |-> FALSE, contenido |-> <<>>]

\* main is not running
MainIdle ==
    /\ idx = 0
    /\ archivos = [c \in {"7d", "7e"} |-> [k |-> "missing", json |-> DatosNone]]
    /\ datos = [c \in {"7d", "7e"} |-> DatosNone]
    /\ icals = [c \in {"7d", "7e"} |-> Pending]
    /\ exito = [c \in {"7d", "7e"} |-> "pending"]
    /\ disco = [c \in {"7d", "7e"} |-> NoFile]
    /\ exit_code = -1

\* extraer_eventos_desde_texto is not running
PdfIdle ==
    /\ texto = <<>> /\ lineas = <<>> /\ i_linea = 0
    /\ dia_actual = NullV /\ periodo_actual = NullV
    /\ eventos_pdf = <<>> /\ marcas = <<>>
    /\ resultado = [k |-> "pending", v |-> <<>>]

NoArchivo == [k |-> "none", clase |-> <<>>, eventos |-> <<>>]

\* the assistant is not running
AsisIdle ==
    /\ clase_json = <<>>
    /\ entrada = NoEvento
    /\ eventos_json = <<>>
    /\ interrumpido = ""
    /\ archivo_json = NoArchivo
    /\ codigo = -1

----------------------------------------------------------------------------
(* One call of generar_icalendar *)

vars == <<pc, clock, tzoff, datos_clase, hoy, fecha_base, ahora, ical, evento, verdict,
         idx, archivos, datos, icals, exito, disco, exit_code,
         texto, lineas, i_linea, dia_actual, periodo_actual, eventos_pdf, marcas,
         resultado, clase_json, entrada, eventos_json, interrumpido, archivo_json,
         codigo>>

Init ==
    /\ pc = "generar_icalendar"
    /\ clock \in Clocks
    /\ tzoff \in TzOffsets
    /\ datos_clase \in Schedules
    /\ hoy = NoTime /\ fecha_base = NoTime /\ ahora = NoTime
    /\ ical = Pending
    /\ evento = NoEvento /\ verdict = NoVerdict
    /\ MainIdle /\ PdfIdle /\ AsisIdle

\* the call returns before reading the clock
GenerarSinEventos ==
    /\ pc = "generar_icalendar"
    /\ SinDatos(datos_clase) \/ SinEventos(datos_clase)
    /\ ical' = generar_icalendar(datos_clase, NoTime, NoTime)
    /\ pc' = "done"
    /\ UNCHANGED <<clock, tzoff, datos_clase, hoy, fecha_base, ahora, evento, verdict>>
    /\ UNCHANGED mainVars
    /\ UNCHANGED pdfVars /\ UNCHANGED asisVars

\* the call reads the clock at line 226 and again, tick seconds later, at 157
Generar ==
    /\ pc = "generar_icalendar"
    /\ ~(SinDatos(datos_clase) \/ SinEventos(datos_clase))
    /\ \E tick \in 0..MaxTick :
         /\ hoy' = Now(clock, tzoff)
         /\ clock' = AddSeconds(clock, tick)
         /\ ahora' = Now(clock', tzoff)
         /\ fecha_base' = FechaBase(hoy')
         /\ ical' = generar_icalendar(datos_clase, hoy', ahora')
    /\ pc' = "done"
    /\ UNCHANGED <<tzoff, datos_clase, evento, verdict>>
    /\ UNCHANGED mainVars
    /\ UNCHANGED pdfVars /\ UNCHANGED asisVars

Next == GenerarSinEventos \/ Generar

Spec == Init /\ [][Next]_vars

----------------------------------------------------------------------------
(* One call of validar_evento *)

ValInit ==
    /\ pc = "validar_evento"
    /\ evento \in RawEvents
    /\ verdict = NoVerdict
    /\ clock = NoTime /\ tzoff = 0
    /\ datos_clase = DatosNone
    /\ hoy = NoTime /\ fecha_base = NoTime /\ ahora = NoTime
    /\ ical = Pending
    /\ MainIdle /\ PdfIdle /\ AsisIdle

Validar ==
    /\ pc = "validar_evento"
    /\ verdict' = validar_evento(evento)
    /\ pc' = "done"
    /\ UNCHANGED <<clock, tzoff, evento>>
    /\ UNCHANGED genVars
    /\ UNCHANGED mainVars
    /\ UNCHANGED pdfVars /\ UNCHANGED asisVars

ValNext == Validar

ValSpec == ValInit /\ [][ValNext]_vars

----------------------------------------------------------------------------
(* cargar_json, guardar_icalendar *)

\* lines 102-121: a file that is missing, is not JSON or cannot be read, a
\* JSON value that is no object, an object without 'clase' or 'eventos'
cargar_json(archivo) ==
    IF archivo.k # "dict" THEN DatosNone
    ELSE IF archivo.json.clase = AbsentV \/ ~archivo.json.con_eventos THEN DatosNone
    ELSE archivo.json

\* ical.encode('utf-8'): each character as its UTF-8 bytes
Utf8(t) == [i \in 1..Len(t) |-> <<"utf-8", t[i]>>]

\* what the file system does to one write: it succeeds, creating or opening
\* the file fails, or the write fails after the file was truncated and n of
\* the bytes were written
IoOutcomes(bytes) ==
    { [k |-> "ok", n |-> Len(bytes)], [k |-> "open_fails", n |-> 0] }
    \cup { [k |-> "write_fails", n |-> n] : n \in {0, Len(bytes) \div 2} }

\* lines 356-376: [exito, archivo] for the file as it was and the outcome io
guardar_icalendar(ic, archivo, io) ==
    IF ic.k # "str" \/ Len(ic.text) = 0
    THEN [exito |-> "false", archivo |-> archivo]
    ELSE CASE io.k = "ok" ->
                [exito |-> "true",
                 archivo |-> [existe |-> TRUE, contenido |-> Utf8(ic.text)]]
           [] io.k = "open_fails" ->
                [exito |-> "false", archivo |-> archivo]
           [] OTHER ->
                [exito |-> "false",
                 archivo |-> [existe |-> TRUE,
                              contenido |-> SubSeq(Utf8(ic.text), 1, io.n)]]

----------------------------------------------------------------------------
(* main: the batch over the two classes *)

EvM   == Ev(IntV(1), IntV(1), StrV(<<"m">>), A104)
EvFL  == Ev(IntV(5), IntV(12), StrV(<<"f", "/", "l">>), A104)
EvBad == Ev(IntV(6), IntV(1), StrV(<<"m">>), A104)
EvStr == Ev(StrV(<<"1">>), IntV(1), StrV(<<"m">>), A104)
EvNul == Ev(IntV(4), IntV(3), NullV, A104)

\* the event lists of the input files of a batch
MainEventLists ==
    { <<>>, <<EvM>>, <<EvM, EvFL>>, <<EvM, EvM>>, <<EvBad>>, <<EvBad, EvM>>,
      <<EvM, EvStr>>, <<EvNul>> }

\* what the input file of class c can be
MainFiles(c) ==
    { [k |-> kind, json |-> DatosNone] :
        kind \in {"missing", "invalid", "unreadable", "notdict"} }
    \cup { [k |-> "dict",
            json |-> [k |-> "dict", clase |-> c, con_eventos |-> FALSE, eventos |-> <<>>]] }
    \cup { [k |-> "dict", json |-> Datos(c, evs)] : evs \in MainEventLists }

ClaseDe(c) == IF c = "7d" THEN Clase7d ELSE Clase7e

OldFile == [existe |-> TRUE, contenido |-> << <<"utf-8", "old">> >>]

MainInit ==
    /\ pc = "cargar"
    /\ idx = 1
    /\ clock = [ord |-> NowBase, sec |-> 86399]
    /\ tzoff \in TzOffsets
    /\ archivos \in [{"7d", "7e"} -> MainFiles(Clase7d) \cup MainFiles(Clase7e)]
    /\ \A c \in {"7d", "7e"} : archivos[c] \in MainFiles(ClaseDe(c))
    /\ datos = [c \in {"7d", "7e"} |-> DatosNone]
    /\ icals = [c \in {"7d", "7e"} |-> Pending]
    /\ exito = [c \in {"7d", "7e"} |-> "pending"]
    /\ disco \in { [c \in {"7d", "7e"} |-> f] : f \in {NoFile, OldFile} }
    /\ exit_code = -1
    /\ datos_clase = DatosNone
    /\ hoy = NoTime /\ fecha_base = NoTime /\ ahora = NoTime
    /\ ical = Pending
    /\ evento = NoEvento /\ verdict = NoVerdict
    /\ PdfIdle /\ AsisIdle

\* the step after the one for class idx: the same step for the next class,
\* or the first class of the next step
Avanza(siguiente) ==
    IF idx < Len(Clases) THEN idx' = idx + 1 /\ pc' = pc
    ELSE idx' = 1 /\ pc' = siguiente

\* lines 432-433
Cargar ==
    /\ pc = "cargar"
    /\ datos' = [datos EXCEPT ![Clases[idx]] = cargar_json(archivos[Clases[idx]])]
    /\ Avanza("generar")
    /\ UNCHANGED <<clock, tzoff, archivos, icals, exito, disco, exit_code>>
    /\ UNCHANGED genVars /\ UNCHANGED valVars
    /\ UNCHANGED pdfVars /\ UNCHANGED asisVars

\* lines 436-437, a call that returns before reading the clock
MainGenerarSinEventos ==
    /\ pc = "generar"
    /\ SinDatos(datos[Clases[idx]]) \/ SinEventos(datos[Clases[idx]])
    /\ icals' = [icals EXCEPT ![Clases[idx]] =
                    generar_icalendar(datos[Clases[idx]], NoTime, NoTime)]
    /\ Avanza("guardar")
    /\ UNCHANGED <<clock, tzoff, archivos, datos, exito, disco, exit_code>>
    /\ UNCHANGED genVars /\ UNCHANGED valVars
    /\ UNCHANGED pdfVars /\ UNCHANGED asisVars

\* lines 436-437, a call that reads the clock twice; an exception it raises
\* is caught nowhere and ends main
MainGenerar ==
    /\ pc = "generar"
    /\ ~(SinDatos(datos[Clases[idx]]) \/ SinEventos(datos[Clases[idx]]))
    /\ \E tick \in 0..MaxTick :
         /\ clock' = AddSeconds(clock, tick)
         /\ icals' = [icals EXCEPT ![Clases[idx]] =
                         generar_icalendar(datos[Clases[idx]], Now(clock, tzoff),
                                           Now(clock', tzoff))]
    /\ IF icals'[Clases[idx]].k = "raise"
       THEN pc' = "crashed" /\ idx' = idx
       ELSE Avanza("guardar")
    /\ UNCHANGED <<tzoff, archivos, datos, exito, disco, exit_code>>
    /\ UNCHANGED genVars /\ UNCHANGED valVars
    /\ UNCHANGED pdfVars /\ UNCHANGED asisVars

\* lines 443-444
Guardar ==
    /\ pc = "guardar"
    /\ \E io \in IoOutcomes(Utf8(icals[Clases[idx]].text)) :
         LET g == guardar_icalendar(icals[Clases[idx]], disco[Clases[idx]], io)
         IN  /\ exito' = [exito EXCEPT ![Clases[idx]] = g.exito]
             /\ disco' = [disco EXCEPT ![Clases[idx]] = g.archivo]
    /\ Avanza("resumen")
    /\ UNCHANGED <<clock, tzoff, archivos, datos, icals, exit_code>>
    /\ UNCHANGED genVars /\ UNCHANGED valVars
    /\ UNCHANGED pdfVars /\ UNCHANGED asisVars

\* lines 447-457
Resumen ==
    /\ pc = "resumen"
    /\ exit_code' = IF exito["7d"] = "true" /\ exito["7e"] = "true" THEN 0 ELSE 1
    /\ pc' = "done"
    /\ UNCHANGED <<clock, tzoff, idx, archivos, datos, icals, exito, disco>>
    /\ UNCHANGED genVars /\ UNCHANGED valVars
    /\ UNCHANGED pdfVars /\ UNCHANGED asisVars

MainNext == Cargar \/ MainGenerarSinEventos \/ MainGenerar \/ Guardar \/ Resumen

MainSpec == MainInit /\ [][MainNext]_vars

----------------------------------------------------------------------------
(* extraer_eventos_desde_texto, src/pdf_to_json.py *)

\* DIAS_SEMANA of src/pdf_to_json.py, lines 29-35

PDF_DIAS_SEMANA_KEYS ==
    { <<"M", "o", "n", "t", "a", "g">>,
      <<"D", "i", "e", "n", "s", "t", "a", "g">>,
      <<"M", "i", "t", "t", "w", "o", "c", "h">>,
      <<"D", "o", "n", "n", "e", "r", "s", "t", "a", "g">>,
      <<"F", "r", "e", "i", "t", "a", "g">> }

PDF_DIAS_SEMANA ==
    [ key \in PDF_DIAS_SEMANA_KEYS |->
        CASE key = <<"M", "o", "n", "t", "a", "g">> -> 1
          [] key = <<"D", "i", "e", "n", "s", "t", "a", "g">> -> 2
          [] key = <<"M", "i", "t", "t", "w", "o", "c", "h">> -> 3
          [] key = <<"D", "o", "n", "n", "e", "r", "s", "t", "a", "g">> -> 4
          [] key = <<"F", "r", "e", "i", "t", "a", "g">> -> 5 ]

\* lines 37-50
HORARIOS_PERIODO_KEYS ==
    { <<"0", "8", ".", "1", "0", " ", "-", " ", "0", "8", ".", "5", "5">>,
      <<"0", "8", ".", "5", "5", " ", "-", " ", "0", "9", ".", "4", "0">>,
      <<"1", "0", ".", "0", "0", " ", "-", " ", "1", "0", ".", "4", "5">>,
      <<"1", "0", ".", "4", "5", " ", "-", " ", "1", "1", ".", "3", "0">>,
      <<"1", "1", ".", "4", "5", " ", "-", " ", "1", "2", ".", "3", "0">>,
      <<"1", "2", ".", "3", "0", " ", "-", " ", "1", "3", ".", "1", "5">>,
      <<"1", "3", ".", "3", "0", " ", "-", " ", "1", "4", ".", "1", "5">>,
      <<"1", "4", ".", "1", "5", " ", "-", " ", "1", "5", ".", "0", "0">>,
      <<"1", "5", ".", "0", "0", " ", "-", " ", "1", "5", ".", "4", "5">>,
      <<"1", "5", ".", "4", "5", " ", "-", " ", "1", "6", ".", "3", "0">>,
      <<"1", "6", ".", "3", "0", " ", "-", " ", "1", "7", ".", "1", "5">>,
      <<"1", "7", ".", "1", "5", " ", "-", " ", "1", "8", ".", "0", "0">> }

HORARIOS_PERIODO ==
    [ key \in HORARIOS_PERIODO_KEYS |->
        CASE key = <<"0", "8", ".", "1", "0", " ", "-", " ", "0", "8", ".", "5", "5">> -> 1
          [] key = <<"0", "8", ".", "5", "5", " ", "-", " ", "0", "9", ".", "4", "0">> -> 2
          [] key = <<"1", "0", ".", "0", "0", " ", "-", " ", "1", "0", ".", "4", "5">> -> 3
          [] key = <<"1", "0", ".", "4", "5", " ", "-", " ", "1", "1", ".", "3", "0">> -> 4
          [] key = <<"1", "1", ".", "4", "5", " ", "-", " ", "1", "2", ".", "3", "0">> -> 5
          [] key = <<"1", "2", ".", "3", "0", " ", "-", " ", "1", "3", ".", "1", "5">> -> 6
          [] key = <<"1", "3", ".", "3", "0", " ", "-", " ", "1", "4", ".", "1", "5">> -> 7
          [] key = <<"1", "4", ".", "1", "5", " ", "-", " ", "1", "5", ".", "0", "0">> -> 8
          [] key = <<"1", "5", ".", "0", "0", " ", "-", " ", "1", "5", ".", "4", "5">> -> 9
          [] key = <<"1", "5", ".", "4", "5", " ", "-", " ", "1", "6", ".", "3", "0">> -> 10
          [] key = <<"1", "6", ".", "3", "0", " ", "-", " ", "1", "7", ".", "1", "5">> -> 11
          [] key = <<"1", "7", ".", "1", "5", " ", "-", " ", "1", "8", ".", "0", "0">> -> 12 ]

\* the characters str.strip() removes
ESPACIOS == {" ", "\t", "\n", "\r", "\f"}

\* str.strip()
Strip(t) ==
    LET js == { j \in 1..Len(t) : t[j] \notin ESPACIOS }
    IN  IF js = {} THEN <<>>
        ELSE SubSeq(t, CHOOSE j \in js : \A h \in js : j <= h,
                       CHOOSE j \in js : \A h \in js : j >= h)

MAYUSCULAS ==
    {"A", "B", "C", "D", "E", "F", "G", "H", "I", "J", "K", "L", "M",
     "N", "O", "P", "Q", "R", "S", "T", "U", "V", "W", "X", "Y", "Z"}

\* re.match(r'^[A-Z]', siguiente)
PareceAula(siguiente) == Len(siguiente) > 0 /\ siguiente[1] \in MAYUSCULAS

\* the truth value Python gives None, an int or a str
Truthy(v) ==
    CASE v.k = "int" -> v.n # 0
      [] v.k = "str" -> Len(v.s) > 0
      [] OTHER       -> FALSE

\* faulty variant of TrasAnotar: the header seen is kept after the append
TrasAnotar_sin_reinicio(actual) == actual

\* lines 202-203: dia_actual and periodo_actual after an append
TrasAnotar(actual) == NullV

\* line 205
Devuelto(eventos) ==
    IF Len(eventos) > 0 THEN [k |-> "list", v |-> eventos] ELSE [k |-> "none", v |-> <<>>]

\* longest text of which every combination of lines is explored
MaxLineas == 4

\* lines a page of a timetable holds: day and time headers, a subject, a
\* room, a blank line
LineasPdf ==
    { <<"M", "o", "n", "t", "a", "g">>,
      <<"F", "r", "e", "i", "t", "a", "g", "\r">>,
      <<"0", "8", ".", "1", "0", " ", "-", " ", "0", "8", ".", "5", "5">>,
      <<"1", "7", ".", "1", "5", " ", "-", " ", "1", "8", ".", "0", "0">>,
      <<"m">>,
      <<"A", "1", "0", "4">>,
      <<>> }

\* longer pages: two events, a header line taken as a room, a second
\* subject and room without new headers, repeated headers
TextosLargos ==
    { << <<"M", "o", "n", "t", "a", "g">>,
         <<"0", "8", ".", "1", "0", " ", "-", " ", "0", "8", ".", "5", "5">>,
         <<"m">>,
         <<"A", "1", "0", "4">>,
         <<"F", "r", "e", "i", "t", "a", "g", "\r">>,
         <<"1", "7", ".", "1", "5", " ", "-", " ", "1", "8", ".", "0", "0">>,
         <<"m">>,
         <<"A", "1", "0", "4">> >>,
      << <<"M", "o", "n", "t", "a", "g">>,
         <<"0", "8", ".", "1", "0", " ", "-", " ", "0", "8", ".", "5", "5">>,
         <<"m">>,
         <<"M", "o", "n", "t", "a", "g">>,
         <<"1", "7", ".", "1", "5", " ", "-", " ", "1", "8", ".", "0", "0">>,
         <<"m">>,
         <<"A", "1", "0", "4">> >>,
      << <<"M", "o", "n", "t", "a", "g">>,
         <<"0", "8", ".", "1", "0", " ", "-", " ", "0", "8", ".", "5", "5">>,
         <<"m">>,
         <<"A", "1", "0", "4">>,
         <<"m">>,
         <<"A", "1", "0", "4">> >>,
      << <<"M", "o", "n", "t", "a", "g">>,
         <<"F", "r", "e", "i", "t", "a", "g", "\r">>,
         <<"0", "8", ".", "1", "0", " ", "-", " ", "0", "8", ".", "5", "5">>,
         <<"1", "7", ".", "1", "5", " ", "-", " ", "1", "8", ".", "0", "0">>,
         <<>>,
         <<"m">>,
         <<"A", "1", "0", "4">> >>,
      << <<"M", "o", "n", "t", "a", "g">>,
         <<"0", "8", ".", "1", "0", " ", "-", " ", "0", "8", ".", "5", "5">>,
         <<"m">>,
         <<"A", "1", "0", "4">>,
         <<"1", "7", ".", "1", "5", " ", "-", " ", "1", "8", ".", "0", "0">>,
         <<"m">>,
         <<"A", "1", "0", "4">> >>,
      << <<" ", " ", "D", "i", "e", "n", "s", "t", "a", "g", " ">>,
         <<"1", "0", ".", "0", "0", " ", "-", " ", "1", "0", ".", "4", "5">>,
         <<"f", "/", "l">>,
         <<" ", "A", "1", "0", "4", "/", "E", "0", "2">>,
         <<"S", "t", "u", "n", "d", "e", "n", "p", "l", "a", "n", " ", "d", "e", "r", " ", "K", "l", "a", "s", "s", "e", " ", "7", "d">> >> }

Textos ==
    { Join(ls, <<"\n">>) :
        ls \in UNION { [1..m -> LineasPdf] : m \in 0..MaxLineas } \cup TextosLargos }

PdfInit ==
    /\ pc = "extraer"
    /\ texto \in Textos
    /\ lineas = <<>> /\ i_linea = 0
    /\ dia_actual = NullV /\ periodo_actual = NullV
    /\ eventos_pdf = <<>> /\ marcas = <<>>
    /\ resultado = [k |-> "pending", v |-> <<>>]
    /\ clock = NoTime /\ tzoff = 0
    /\ datos_clase = DatosNone
    /\ hoy = NoTime /\ fecha_base = NoTime /\ ahora = NoTime
    /\ ical = Pending
    /\ evento = NoEvento /\ verdict = NoVerdict
    /\ MainIdle /\ AsisIdle

\* lines 160-173
Dividir ==
    /\ pc = "extraer"
    /\ lineas' = Split(texto, "\n")
    /\ pc' = "bucle"
    /\ UNCHANGED <<texto, i_linea, dia_actual, periodo_actual, eventos_pdf, marcas,
                   resultado>>
    /\ UNCHANGED <<clock, tzoff>>
    /\ UNCHANGED genVars /\ UNCHANGED valVars
    /\ UNCHANGED mainVars /\ UNCHANGED asisVars

\* lines 175-203: one iteration of the loop, for the line at index i_linea
Iterar ==
    /\ pc = "bucle"
    /\ i_linea < Len(lineas)
    /\ LET linea == Strip(lineas[i_linea + 1])
       IN  IF linea \in DOMAIN PDF_DIAS_SEMANA
           THEN /\ dia_actual' = IntV(PDF_DIAS_SEMANA[linea])
                /\ UNCHANGED <<periodo_actual, eventos_pdf, marcas>>
           ELSE IF linea \in DOMAIN HORARIOS_PERIODO
           THEN /\ periodo_actual' = IntV(HORARIOS_PERIODO[linea])
                /\ UNCHANGED <<dia_actual, eventos_pdf, marcas>>
           ELSE IF /\ Truthy(dia_actual) /\ Truthy(periodo_actual)
                   /\ Truthy(StrV(linea))
                   /\ i_linea + 1 < Len(lineas)
                   /\ PareceAula(Strip(lineas[i_linea + 2]))
           THEN /\ eventos_pdf' =
                     Append(eventos_pdf,
                            Ev(dia_actual, periodo_actual, StrV(linea),
                               StrV(Strip(lineas[i_linea + 2]))))
                /\ marcas' = Append(marcas, i_linea + 1)
                /\ dia_actual' = TrasAnotar(dia_actual)
                /\ periodo_actual' = TrasAnotar(periodo_actual)
           ELSE UNCHANGED <<dia_actual, periodo_actual, eventos_pdf, marcas>>
    /\ i_linea' = i_linea + 1
    /\ UNCHANGED <<pc, texto, lineas, resultado>>
    /\ UNCHANGED <<clock, tzoff>>
    /\ UNCHANGED genVars /\ UNCHANGED valVars
    /\ UNCHANGED mainVars /\ UNCHANGED asisVars

\* line 205
Devolver ==
    /\ pc = "bucle"
    /\ i_linea = Len(lineas)
    /\ resultado' = Devuelto(eventos_pdf)
    /\ pc' = "done"
    /\ UNCHANGED <<texto, lineas, i_linea, dia_actual, periodo_actual, eventos_pdf,
                   marcas>>
    /\ UNCHANGED <<clock, tzoff>>
    /\ UNCHANGED genVars /\ UNCHANGED valVars
    /\ UNCHANGED mainVars /\ UNCHANGED asisVars

PdfNext == Dividir \/ Iterar \/ Devolver

PdfSpec == PdfInit /\ [][PdfNext]_vars

----------------------------------------------------------------------------
(* The interactive assistant, src/create_schedule_json.py *)

\* most events entered in one session
MaxAnotados == 2

\* DIAS, lines 17-23: its keys
DIAS_KEYS == { <<"1">>, <<"2">>, <<"3">>, <<"4">>, <<"5">> }

\* str.isdigit(): every character is a digit, and there is at least one; a
\* superscript two is a digit to isdigit but not a decimal to int()
EsDigito(t) == Len(t) > 0 /\ \A j \in 1..Len(t) : t[j] \in {DIGITS[d] : d \in 1..10} \cup {"²"}
EsDecimal(t) == Len(t) > 0 /\ \A j \in 1..Len(t) : t[j] \in {DIGITS[d] : d \in 1..10}

\* str.lower() of the answers offered
Lower(t) == [j \in 1..Len(t) |-> IF t[j] = "S" THEN "s" ELSE IF t[j] = "N" THEN "n" ELSE t[j]]

\* the sort key of line 139
Clave(e) == <<e.dia.n, e.periodo.n>>

\* the order of Python tuples of two ints
TuplaMenorIgual(a, b) == a[1] < b[1] \/ (a[1] = b[1] /\ a[2] <= b[2])

RECURSIVE Insertar(_, _)
\* e placed in the sorted list s behind every event whose key is not larger
Insertar(e, s) ==
    IF Len(s) = 0 THEN <<e>>
    ELSE IF TuplaMenorIgual(Clave(s[1]), Clave(e)) THEN <<s[1]>> \o Insertar(e, Tail(s))
    ELSE <<e>> \o s

RECURSIVE Ordenar(_)
\* list.sort(key=...), line 139: a stable sort
Ordenar(s) ==
    IF Len(s) = 0 THEN <<>>
    ELSE Insertar(s[Len(s)], Ordenar(SubSeq(s, 1, Len(s) - 1)))

\* what the user types at each prompt
RespuestasClase == { <<>>, <<" ", "7", "d", " ">> }
RespuestasDia == { <<"1">>, <<" ", "5", " ">>, <<"6">>, <<>> }
RespuestasPeriodo == { <<"1">>, <<"1", "2">>, <<"1", "3">>, <<"x">>, <<"²">> }
RespuestasAsignatura == { <<"m">>, <<" ", "f", "/", "l">> }
RespuestasAula == { <<"A", "1", "0", "4">> }
RespuestasContinuar == { <<"s">>, <<"S", " ">>, <<"n">>, <<>> }

\* a file <clase>.json left by an earlier session
ArchivoViejo == [k |-> "old", clase |-> <<"7", "d">>, eventos |-> <<>>]

\* the positions of the entry loop (lines 113-123)
EnBucle == {"dia", "periodo", "asignatura", "aula", "confirmar", "continuar"}

AsisInit ==
    /\ pc = "clase"
    /\ clase_json = <<>>
    /\ entrada = NoEvento
    /\ eventos_json = <<>>
    /\ interrumpido = ""
    /\ archivo_json \in {NoArchivo, ArchivoViejo}
    /\ codigo = -1
    /\ clock = NoTime /\ tzoff = 0
    /\ datos_clase = DatosNone
    /\ hoy = NoTime /\ fecha_base = NoTime /\ ahora = NoTime
    /\ ical = Pending
    /\ evento = NoEvento /\ verdict = NoVerdict
    /\ MainIdle /\ PdfIdle

\* lines 41-45 and 107-115: the class is asked for until it is not empty;
\* then the first event is started
IngresarClase ==
    /\ pc = "clase"
    /\ \E r \in RespuestasClase :
         LET clase == Strip(r)
         IN  IF Len(clase) > 0
             THEN clase_json' = clase /\ pc' = "dia"
             ELSE UNCHANGED <<clase_json, pc>>
    /\ UNCHANGED <<entrada, eventos_json, interrumpido, archivo_json, codigo>>
    /\ UNCHANGED <<clock, tzoff>>
    /\ UNCHANGED genVars /\ UNCHANGED valVars
    /\ UNCHANGED mainVars /\ UNCHANGED pdfVars

\* lines 60-69
IngresarDia ==
    /\ pc = "dia"
    /\ \E r \in RespuestasDia :
         LET dia == Strip(r)
         IN  IF dia \in DIAS_KEYS
             THEN /\ entrada' = [entrada EXCEPT !.dia = IntV(ParseInt(dia))]
                  /\ pc' = "periodo"
             ELSE UNCHANGED <<entrada, pc>>
    /\ UNCHANGED <<clase_json, eventos_json, interrumpido, archivo_json, codigo>>
    /\ UNCHANGED <<clock, tzoff>>
    /\ UNCHANGED genVars /\ UNCHANGED valVars
    /\ UNCHANGED mainVars /\ UNCHANGED pdfVars

\* lines 72-77; int() of a digit that is no decimal raises ValueError, which
\* nothing catches: the script ends with a traceback and status 1
IngresarPeriodo ==
    /\ pc = "periodo"
    /\ \E r \in RespuestasPeriodo :
         LET periodo == Strip(r)
         IN  IF EsDigito(periodo) /\ ~EsDecimal(periodo)
             THEN pc' = "crashed" /\ codigo' = 1 /\ UNCHANGED entrada
             ELSE IF /\ EsDigito(periodo)
                     /\ 1 <= ParseInt(periodo) /\ ParseInt(periodo) <= 12
             THEN /\ entrada' = [entrada EXCEPT !.periodo = IntV(ParseInt(periodo))]
                  /\ pc' = "asignatura"
                  /\ UNCHANGED codigo
             ELSE UNCHANGED <<entrada, pc, codigo>>
    /\ UNCHANGED <<clase_json, eventos_json, interrumpido, archivo_json>>
    /\ UNCHANGED <<clock, tzoff>>
    /\ UNCHANGED genVars /\ UNCHANGED valVars
    /\ UNCHANGED mainVars /\ UNCHANGED pdfVars

\* line 80
IngresarAsignatura ==
    /\ pc = "asignatura"
    /\ \E r \in RespuestasAsignatura :
         entrada' = [entrada EXCEPT !.asignatura = StrV(Strip(r))]
    /\ pc' = "aula"
    /\ UNCHANGED <<clase_json, eventos_json, interrumpido, archivo_json, codigo>>
    /\ UNCHANGED <<clock, tzoff>>
    /\ UNCHANGED genVars /\ UNCHANGED valVars
    /\ UNCHANGED mainVars /\ UNCHANGED pdfVars

\* line 83
IngresarAula ==
    /\ pc = "aula"
    /\ \E r \in RespuestasAula :
         entrada' = [entrada EXCEPT !.aula = StrV(Strip(r))]
    /\ pc' = "confirmar"
    /\ UNCHANGED <<clase_json, eventos_json, interrumpido, archivo_json, codigo>>
    /\ UNCHANGED <<clock, tzoff>>
    /\ UNCHANGED genVars /\ UNCHANGED valVars
    /\ UNCHANGED mainVars /\ UNCHANGED pdfVars

\* lines 85-98 and 116-118: the event is built, shown and returned, then
\* appended
Anotar ==
    /\ pc = "confirmar"
    /\ eventos_json' = Append(eventos_json, entrada)
    /\ entrada' = NoEvento
    /\ pc' = "continuar"
    /\ UNCHANGED <<clase_json, interrumpido, archivo_json, codigo>>
    /\ UNCHANGED <<clock, tzoff>>
    /\ UNCHANGED genVars /\ UNCHANGED valVars
    /\ UNCHANGED mainVars /\ UNCHANGED pdfVars

\* lines 121-123: another event, or the end of the entry
Continuar ==
    /\ pc = "continuar"
    /\ \E r \in RespuestasContinuar :
         LET continuar == Lower(Strip(r))
         IN  IF continuar # <<"s">> THEN pc' = "guardar"
             ELSE Len(eventos_json) < MaxAnotados /\ pc' = "dia"
    /\ UNCHANGED <<clase_json, entrada, eventos_json, interrumpido, archivo_json, codigo>>
    /\ UNCHANGED <<clock, tzoff>>
    /\ UNCHANGED genVars /\ UNCHANGED valVars
    /\ UNCHANGED mainVars /\ UNCHANGED pdfVars

\* Ctrl+C while the class is asked for (line 106, outside the try of line
\* 113): KeyboardInterrupt leaves main and is caught at line 166
InterrumpirFuera ==
    /\ pc = "clase"
    /\ interrumpido' = pc
    /\ codigo' = 0
    /\ pc' = "done"
    /\ UNCHANGED <<clase_json, entrada, eventos_json, archivo_json>>
    /\ UNCHANGED <<clock, tzoff>>
    /\ UNCHANGED genVars /\ UNCHANGED valVars
    /\ UNCHANGED mainVars /\ UNCHANGED pdfVars

\* Ctrl+C at any position of the loop: KeyboardInterrupt is raised there and
\* caught at line 125; the event being entered stays in the abandoned call
Interrumpir ==
    /\ pc \in EnBucle
    /\ interrumpido' = pc
    /\ pc' = "guardar"
    /\ UNCHANGED <<clase_json, entrada, eventos_json, archivo_json, codigo>>
    /\ UNCHANGED <<clock, tzoff>>
    /\ UNCHANGED genVars /\ UNCHANGED valVars
    /\ UNCHANGED mainVars /\ UNCHANGED pdfVars

\* lines 128-131: nothing to save
SinGuardar ==
    /\ pc = "guardar"
    /\ Len(eventos_json) = 0
    /\ codigo' = 1
    /\ pc' = "done"
    /\ UNCHANGED <<clase_json, entrada, eventos_json, interrumpido, archivo_json>>
    /\ UNCHANGED <<clock, tzoff>>
    /\ UNCHANGED genVars /\ UNCHANGED valVars
    /\ UNCHANGED mainVars /\ UNCHANGED pdfVars

\* lines 133-160: the list is sorted in place, then written; open or
\* json.dump may raise, and dump writes the file piece by piece
GuardarJson ==
    /\ pc = "guardar"
    /\ Len(eventos_json) > 0
    /\ eventos_json' = Ordenar(eventos_json)
    /\ \E io \in {"ok", "open_fails", "write_fails"} :
         CASE io = "ok" ->
                /\ archivo_json' = [k |-> "written", clase |-> clase_json,
                                    eventos |-> eventos_json']
                /\ codigo' = 0
           [] io = "open_fails" ->
                /\ UNCHANGED archivo_json
                /\ codigo' = 1
           [] OTHER ->
                /\ archivo_json' = [k |-> "partial", clase |-> clase_json,
                                    eventos |-> <<>>]
                /\ codigo' = 1
    /\ pc' = "done"
    /\ UNCHANGED <<clase_json, entrada, interrumpido>>
    /\ UNCHANGED <<clock, tzoff>>
    /\ UNCHANGED genVars /\ UNCHANGED valVars
    /\ UNCHANGED mainVars /\ UNCHANGED pdfVars

AsisNext ==
    \/ IngresarClase \/ IngresarDia \/ IngresarPeriodo \/ IngresarAsignatura
    \/ IngresarAula \/ Anotar \/ Continuar \/ InterrumpirFuera \/ Interrumpir
    \/ SinGuardar \/ GuardarJson

AsisSpec == AsisInit /\ [][AsisNext]_vars

----------------------------------------------------------------------------
(* Reading a generated document back *)

\* the members of a finite set of integers, in increasing order
Sorted(S) ==
    [k \in 1..Cardinality(S) |->
        CHOOSE i \in S : Cardinality({ j \in S : j < i }) = k - 1]

\* the lines of a text: what stands before each CR LF, and any rest after
\* the last one
LinesOf(t) ==
    LET ends == Sorted({ i \in 1..(Len(t) - 1) : t[i] = "\r" /\ t[i + 1] = "\n" })
        n    == Len(ends)
        rest == IF n = 0 THEN t ELSE SubSeq(t, ends[n] + 2, Len(t))
    IN  [k \in 1..n |-> SubSeq(t, IF k = 1 THEN 1 ELSE ends[k - 1] + 2, ends[k] - 1)]
        \o (IF Len(rest) = 0 THEN <<>> ELSE <<rest>>)

\* the VEVENT blocks of a list of lines, in order: each runs from a
\* BEGIN:VEVENT line to the next END:VEVENT line (or to the last line)
BlocksOf(ls) ==
    LET starts == Sorted({ i \in 1..Len(ls) : ls[i] = <<"BEGIN:VEVENT">> })
        EndOf(i) ==
            LET js == { j \in i..Len(ls) : ls[j] = <<"END:VEVENT">> }
            IN  IF js = {} THEN Len(ls) ELSE CHOOSE j \in js : \A h \in js : j <= h
    IN  [b \in 1..Len(starts) |-> SubSeq(ls, starts[b], EndOf(starts[b]))]

Blocks == BlocksOf(LinesOf(ical.text))

\* the value of the first line of a block that begins with the given property
\* text (<<>> when the block holds none)
Field(block, name) ==
    LET js == { j \in 1..Len(block) : block[j][1] = name }
    IN  IF js = {} THEN <<>>
        ELSE Tail(block[CHOOSE j \in js : \A h \in js : j <= h])

\* what follows the first occurrence of token c in a line
After(line, c) ==
    LET js == { j \in 1..Len(line) : line[j] = c }
    IN  IF js = {} THEN <<>>
        ELSE SubSeq(line, (CHOOSE j \in js : \A h \in js : j <= h) + 1, Len(line))

\* what precedes the first occurrence of token c in a line
Before(line, c) ==
    LET js == { j \in 1..Len(line) : line[j] = c }
    IN  IF js = {} THEN line
        ELSE SubSeq(line, 1, (CHOOSE j \in js : \A h \in js : j <= h) - 1)

RECURSIVE Filter(_, _)
\* the events of a list that validar_evento answers with the given verdict
Filter(evs, v) ==
    IF Len(evs) = 0 THEN <<>>
    ELSE IF validar_evento(evs[1]) = v THEN <<evs[1]>> \o Filter(Tail(evs), v)
    ELSE Filter(Tail(evs), v)

Accepted == Filter(datos_clase.eventos, Ret(TRUE))

Returned == pc = "done" /\ ical.k = "str"

\* the calendar date of a YYYYMMDD text as an ordinal, by counting days
IsLeap(y) == y % 4 = 0 /\ (y % 100 # 0 \/ y % 400 = 0)
DaysInMonth(y, m) ==
    IF m = 2 THEN (IF IsLeap(y) THEN 29 ELSE 28)
    ELSE IF m \in {4, 6, 9, 11} THEN 30 ELSE 31
RECURSIVE DaysBeforeMonth(_, _)
DaysBeforeMonth(y, m) ==
    IF m = 1 THEN 0 ELSE DaysBeforeMonth(y, m - 1) + DaysInMonth(y, m - 1)
OrdinalOfDate(t) ==
    LET y == ParseInt(SubSeq(t, 1, Len(t) - 4))
        m == ParseInt(SubSeq(t, Len(t) - 3, Len(t) - 2))
        d == ParseInt(SubSeq(t, Len(t) - 1, Len(t)))
    IN  (y - 1) * 365 + ((y - 1) \div 4) - ((y - 1) \div 100) + ((y - 1) \div 400)
        + DaysBeforeMonth(y, m) + d

\* the specification's tables (spec.md, section 6)
SpecDayCode == << <<"M", "O">>, <<"T", "U">>, <<"W", "E">>, <<"T", "H">>, <<"F", "R">> >>
\* start and end of slots 1..12 as HHMMSS
SpecSlots ==
    << [start |-> <<"0", "8", "1", "0", "0", "0">>, end |-> <<"0", "8", "5", "5", "0", "0">>],
       [start |-> <<"0", "8", "5", "5", "0", "0">>, end |-> <<"0", "9", "4", "0", "0", "0">>],
       [start |-> <<"1", "0", "0", "0", "0", "0">>, end |-> <<"1", "0", "4", "5", "0", "0">>],
       [start |-> <<"1", "0", "4", "5", "0", "0">>, end |-> <<"1", "1", "3", "0", "0", "0">>],
       [start |-> <<"1", "1", "4", "5", "0", "0">>, end |-> <<"1", "2", "3", "0", "0", "0">>],
       [start |-> <<"1", "2", "3", "0", "0", "0">>, end |-> <<"1", "3", "1", "5", "0", "0">>],
       [start |-> <<"1", "3", "3", "0", "0", "0">>, end |-> <<"1", "4", "1", "5", "0", "0">>],
       [start |-> <<"1", "4", "1", "5", "0", "0">>, end |-> <<"1", "5", "0", "0", "0", "0">>],
       [start |-> <<"1", "5", "0", "0", "0", "0">>, end |-> <<"1", "5", "4", "5", "0", "0">>],
       [start |-> <<"1", "5", "4", "5", "0", "0">>, end |-> <<"1", "6", "3", "0", "0", "0">>],
       [start |-> <<"1", "6", "3", "0", "0", "0">>, end |-> <<"1", "7", "1", "5", "0", "0">>],
       [start |-> <<"1", "7", "1", "5", "0", "0">>, end |-> <<"1", "8", "0", "0", "0", "0">>] >>

\* the date and the time of day of a DTSTART or DTEND value
DateOf(v) == Before(After(v, ":"), "T")
TimeOf(v) == After(After(v, ":"), "T")

\* the day code of an RRULE value
ByDay(v) == Before(v, ";UNTIL=")

----------------------------------------------------------------------------
(* Claims *)

\* C1: for every schedule with at least one valid event, generar_icalendar
\* returns a document with exactly one VEVENT block per event accepted by
\* validar_evento, in the order of the input list (the b-th block carries
\* the day code, slot and room of the b-th accepted event); rejected events
\* contribute no block and duplicates each contribute their own.
C1_OneBlockPerValidEvent ==
    (pc = "done" /\ datos_clase.k = "dict" /\ Len(Accepted) > 0) =>
        /\ ical.k = "str"
        /\ LET bs == Blocks
           IN  /\ Len(bs) = Len(Accepted)
               /\ \A b \in 1..Len(bs) :
                    /\ Field(bs[b], "LOCATION:") = PyStr(Accepted[b].aula)
                    /\ ByDay(Field(bs[b], "RRULE:FREQ=WEEKLY;WKST=MO;BYDAY="))
                         = SpecDayCode[Accepted[b].dia.n]
                    /\ TimeOf(Field(bs[b], "DTSTART;TZID="))
                         = SpecSlots[Accepted[b].periodo.n].start

\* C2: generar_icalendar returns None exactly when the schedule is absent,
\* has no events, or validar_evento returned False for every event; a
\* returned document holds at least one VEVENT block.
C2_NoneExactlyWhenNothingValid ==
    pc = "done" =>
        /\ (ical.k = "none") <=>
              \/ SinDatos(datos_clase)
              \/ Len(datos_clase.eventos) = 0
              \/ \A i \in 1..Len(datos_clase.eventos) :
                    validar_evento(datos_clase.eventos[i]) = Ret(FALSE)
        /\ ical.k = "str" => Len(Blocks) >= 1

\* a schedule of two events, both rejected, produced None
C2_Witness ==
    /\ pc = "done" /\ ical.k = "none"
    /\ Len(datos_clase.eventos) = 2
    /\ \A i \in 1..2 : validar_evento(datos_clase.eventos[i]) = Ret(FALSE)

\* the reading of "1 <= x <= hi" for a raw JSON value: a number in the range
SpecInRange(v, hi) == v.k \in {"int", "float"} /\ 2 <= Twice(v) /\ Twice(v) <= 2 * hi

SpecAccepts(ev) ==
    /\ ev.dia # AbsentV /\ ev.periodo # AbsentV
    /\ ev.asignatura # AbsentV /\ ev.aula # AbsentV
    /\ SpecInRange(ev.dia, 5)
    /\ SpecInRange(ev.periodo, 12)

\* C3: validar_evento accepts a record if and only if all four fields are
\* present, 1 <= dia <= 5 and 1 <= periodo <= 12; dia 0 and 6 and periodo 0
\* and 13 are rejected, dia 1 and 5 and periodo 1 and 12 are accepted.
C3_AcceptsIffPresentAndInRange ==
    pc = "done" =>
        /\ (verdict = Ret(TRUE)) <=> SpecAccepts(evento)
        /\ evento.dia \in {IntV(0), IntV(6)} => verdict = Ret(FALSE)
        /\ (evento.dia.k = "int" /\ evento.periodo \in {IntV(0), IntV(13)})
             => verdict = Ret(FALSE)
        /\ (/\ evento.dia \in {IntV(1), IntV(5)}
            /\ evento.periodo \in {IntV(1), IntV(12)}
            /\ evento.asignatura # AbsentV /\ evento.aula # AbsentV)
             => verdict = Ret(TRUE)

\* the boundary record dia = 5, periodo = 12 was accepted
C3_Witness ==
    /\ pc = "done" /\ verdict = Ret(TRUE)
    /\ evento.dia = IntV(5) /\ evento.periodo = IntV(12)

\* C4: validation gives a verdict for any raw record and never raises, so
\* no generation is aborted by an exception of validar_evento (lines 178
\* and 182 are its only statements that can raise).
C4_ValidationNeverRaises ==
    pc = "done" => ical.exc \notin {"TypeError@178", "TypeError@182"}

\* C5: in every returned document the date of each DTSTART falls on the
\* weekday its event declares (1 = Monday .. 5 = Friday), BYDAY is the
\* matching code, and DTSTART/DTEND carry the start and end of the event's
\* slot in the 12-slot table.
C5_WeekdayAndSlotMatch ==
    Returned =>
        LET bs == Blocks
        IN  /\ Len(bs) = Len(Accepted)
            /\ \A b \in 1..Len(bs) :
                 LET ev    == Accepted[b]
                     start == Field(bs[b], "DTSTART;TZID=")
                     end   == Field(bs[b], "DTEND;TZID=")
                     rrule == Field(bs[b], "RRULE:FREQ=WEEKLY;WKST=MO;BYDAY=")
                 IN  /\ (OrdinalOfDate(DateOf(start)) + 6) % 7 = ev.dia.n - 1
                     /\ DateOf(end) = DateOf(start)
                     /\ ByDay(rrule) = SpecDayCode[ev.dia.n]
                     /\ TimeOf(start) = SpecSlots[ev.periodo.n].start
                     /\ TimeOf(end) = SpecSlots[ev.periodo.n].end

\* a document for a Friday event in the last slot, generated on a Monday
C5_Witness ==
    /\ Returned /\ Len(Blocks) = 1 /\ Len(Accepted) = 1
    /\ Accepted[1].dia = IntV(5) /\ Accepted[1].periodo = IntV(12)
    /\ Weekday(hoy) = 0

\* C6: whatever the weekday of now, the base date is a Monday 1 to 7 days
\* after now, and 7 days after when now is itself a Monday.
C6_NextMondayStrictlyAfter ==
    (pc = "done" /\ hoy # NoTime) =>
        /\ (fecha_base.ord + 6) % 7 = 0
        /\ fecha_base.ord - hoy.ord \in 1..7
        /\ (hoy.ord + 6) % 7 = 0 => fecha_base.ord - hoy.ord = 7

\* a generation on a Monday has run
C6_Witness == pc = "done" /\ hoy # NoTime /\ (hoy.ord + 6) % 7 = 0

\* C7: the UIDs of the VEVENT blocks of one document are pairwise distinct.
C7_UidsDistinct ==
    Returned =>
        LET bs == Blocks
        IN  \A a, b \in 1..Len(bs) :
                a # b => Field(bs[a], "UID:") # Field(bs[b], "UID:")

\* the display name the specification gives one part of a subject: its
\* entry in the abbreviation map, or the part itself
SpecPart(part) == IF part \in DOMAIN ASIGNATURAS THEN ASIGNATURAS[part] ELSE part

\* C8: subject resolution never fails on a validated event's subject (no
\* generation is aborted by the exception of line 296), and SUMMARY holds as many slash-separated parts as the subject, each the
\* display name of the part at the same position (or the part itself).
C8_SubjectResolutionTotal ==
    pc = "done" =>
        /\ ical.exc # "AttributeError@296"
        /\ ical.k = "str" =>
              LET bs == Blocks
              IN  /\ Len(bs) = Len(Accepted)
                  /\ \A b \in 1..Len(bs) :
                       LET out == Split(Field(bs[b], "SUMMARY:"), "/")
                           inp == Split(Accepted[b].asignatura.s, "/")
                       IN  /\ Len(out) = Len(inp)
                           /\ \A j \in 1..Len(inp) : out[j] = SpecPart(inp[j])

\* the instant of the first clock reading, in UTC
HoyUtc ==
    [ord |-> hoy.ord + ((hoy.sec - tzoff) \div 86400), sec |-> (hoy.sec - tzoff) % 86400]

\* C9: every DTSTAMP of a document is the instant now used for the date
\* computations, expressed in UTC as YYYYMMDDTHHMMSSZ.
C9_DtstampIsNowInUtc ==
    Returned =>
        LET bs == Blocks
        IN  \A b \in 1..Len(bs) :
              Field(bs[b], "DTSTAMP:")
                = Str(Ymd(HoyUtc).year) \o Fmt02d(Ymd(HoyUtc).month)
                  \o Fmt02d(Ymd(HoyUtc).day) \o <<"T">> \o Fmt02d(HoyUtc.sec \div 3600)
                  \o Fmt02d((HoyUtc.sec \div 60) % 60) \o Fmt02d(HoyUtc.sec % 60)
                  \o <<"Z">>

\* what generar_icalendar makes of the input file of class c alone
Propio(c) ==
    generar_icalendar(cargar_json(archivos[c]), [ord |-> NowBase, sec |-> 0],
                      [ord |-> NowBase, sec |-> 0]).k

\* C10: in a batch run, whatever fails for one schedule, the other one is
\* still loaded, generated and written: when main has ended, each schedule
\* whose own input raises nothing has been generated, with the outcome its
\* own input gives, and its save has been attempted.
C10_BatchIndependence ==
    pc \in {"done", "crashed"} =>
        \A c \in {"7d", "7e"} :
            Propio(c) # "raise" =>
                /\ icals[c].k = Propio(c)
                /\ exito[c] # "pending"
                /\ (Propio(c) = "none" => exito[c] = "false")

\* the output file of class c holding the complete document of that class
Completo(c) == [existe |-> TRUE, contenido |-> Utf8(icals[c].text)]

\* C11: whatever guardar_icalendar returns, the output file afterwards
\* either holds the complete document text or is as it was before the call:
\* a step that changes the file of a class leaves in it the whole encoded
\* document, which was built before the writer ran; a failed or absent
\* document leaves no truncated or partial file.
C11_FileCompleteOrUntouched ==
    [][\A c \in {"7d", "7e"} :
          disco'[c] # disco[c] =>
              /\ icals[c].k = "str"
              /\ disco'[c] = Completo(c)]_vars

\* C13: main returns 0 if and only if both calendars were generated and
\* saved, and 1 otherwise; in every case both save attempts have been made
\* when main ends and its exit code is decided.
C13_ExitCodeAfterBothSaves ==
    pc \in {"done", "crashed"} =>
        /\ exito["7d"] # "pending" /\ exito["7e"] # "pending"
        /\ exit_code = 0 <=>
              /\ icals["7d"].k = "str" /\ exito["7d"] = "true"
              /\ icals["7e"].k = "str" /\ exito["7e"] = "true"
        /\ exit_code \in {0, 1}

\* the recurrence bound of an RRULE value, and its date
Until(v) == After(v, ";UNTIL=")
UntilDate(v) == Before(Until(v), "T235959Z")

\* C16: for every generation day and every valid event, DTSTART lies 1 to
\* 11 days after the date of now, DTEND is on the same date and later in the
\* day than DTSTART, and UNTIL is the date of now plus 180 days at 23:59:59,
\* which is strictly later than DTSTART.
C16_DatesWithinBounds ==
    Returned =>
        LET bs == Blocks
        IN  /\ Len(bs) >= 1
            /\ \A b \in 1..Len(bs) :
                 LET start == Field(bs[b], "DTSTART;TZID=")
                     end   == Field(bs[b], "DTEND;TZID=")
                     rrule == Field(bs[b], "RRULE:FREQ=WEEKLY;WKST=MO;BYDAY=")
                     d0    == OrdinalOfDate(DateOf(start))
                     du    == OrdinalOfDate(UntilDate(rrule))
                 IN  /\ d0 - hoy.ord \in 1..11
                     /\ DateOf(end) = DateOf(start)
                     /\ ParseInt(TimeOf(end)) > ParseInt(TimeOf(start))
                     /\ Until(rrule) = UntilDate(rrule) \o <<"T235959Z">>
                     /\ du = hoy.ord + 180
                     /\ du > d0

\* a document generated on a Sunday whose first event is on the Monday, one
\* day later, and one generated on a Monday for a Friday, eleven days later
C16_Witness ==
    /\ Returned /\ Len(Blocks) >= 1
    /\ LET d0 == OrdinalOfDate(DateOf(Field(Blocks[1], "DTSTART;TZID=")))
       IN  \/ Weekday(hoy) = 6 /\ d0 - hoy.ord = 1
           \/ Weekday(hoy) = 0 /\ d0 - hoy.ord = 11

\* the positions of the lines of a list that equal the given line
Where(ls, line) == { i \in 1..Len(ls) : ls[i] = line }

\* C12: every returned document is a sequence of lines each terminated by
\* CRLF, the final one included, and holds no other line break; its first
\* line is BEGIN:VCALENDAR and its last END:VCALENDAR; the six header lines
\* come first, then exactly one VTIMEZONE block, then the VEVENT blocks, each
\* BEGIN:VEVENT followed by its END:VEVENT before the next block starts.
C12_DocumentStructure ==
    Returned =>
        LET t      == ical.text
            ls     == LinesOf(t)
            n      == Len(ls)
            begins == Where(ls, <<"BEGIN:VEVENT">>)
            ends   == Where(ls, <<"END:VEVENT">>)
            tzEnd  == Where(ls, <<"END:VTIMEZONE">>)
        IN  /\ Len(t) >= 2 /\ SubSeq(t, Len(t) - 1, Len(t)) = <<"\r", "\n">>
            /\ \A i \in 1..Len(t) :
                 /\ t[i] = "\n" => (i > 1 /\ t[i - 1] = "\r")
                 /\ t[i] = "\r" => (i < Len(t) /\ t[i + 1] = "\n")
            /\ n >= 8
            /\ ls[1] = <<"BEGIN:VCALENDAR">> /\ ls[n] = <<"END:VCALENDAR">>
            /\ ls[2] = <<"VERSION:2.0">>
            /\ ls[3][1] = "PRODID:"
            /\ ls[4] = <<"CALSCALE:GREGORIAN">>
            /\ ls[5] = <<"METHOD:PUBLISH">>
            /\ ls[6][1] = "X-WR-CALNAME:Clase "
            /\ Where(ls, <<"BEGIN:VTIMEZONE">>) = {7}
            /\ Cardinality(tzEnd) = 1
            /\ \A e \in tzEnd :
                 /\ e > 7
                 /\ \A i \in begins \cup ends : i > e
                 /\ e + 1 \in begins
            /\ n - 1 \in ends
            /\ \A i \in begins :
                 \E j \in ends :
                    /\ j > i
                    /\ \A h \in (i + 1)..(j - 1) : h \notin begins \cup ends
            /\ \A j \in ends : j = n - 1 \/ j + 1 \in begins

\* the lines among a+1..b of the page that are weekday headers, and those
\* that are period headers
DiasEntre(a, b) == { j \in (a + 1)..b : Strip(lineas[j]) \in PDF_DIAS_SEMANA_KEYS }
PeriodosEntre(a, b) == { j \in (a + 1)..b : Strip(lineas[j]) \in HORARIOS_PERIODO_KEYS }

\* the largest member of a non-empty finite set of integers
Ultimo(S) == CHOOSE j \in S : \A h \in S : h <= j

\* what the last header among the lines a+1..b makes of dia_actual and of
\* periodo_actual: the number of that header, None when there is none
DiaVisto(a, b) ==
    IF DiasEntre(a, b) = {} THEN NullV
    ELSE IntV(PDF_DIAS_SEMANA[Strip(lineas[Ultimo(DiasEntre(a, b))])])
PeriodoVisto(a, b) ==
    IF PeriodosEntre(a, b) = {} THEN NullV
    ELSE IntV(HORARIOS_PERIODO[Strip(lineas[Ultimo(PeriodosEntre(a, b))])])

\* C14: over any sequence of lines, each event was appended after both a
\* weekday header and a period header seen since the previous append (or
\* the start) and carries the most recent of each, in 1..5 and 1..12; the
\* day and period are reset by each append (they are those of the headers
\* handled since), so one pair of headers gives at most one event; the
\* function returns None, never an empty list, when no event was produced.
C14_EventNeedsFreshHeaders ==
    /\ Len(marcas) = Len(eventos_pdf)
    /\ \A k \in 1..Len(eventos_pdf) :
         LET a == IF k = 1 THEN 0 ELSE marcas[k - 1]
             b == marcas[k] - 1
         IN  /\ a <= b
             /\ DiasEntre(a, b) # {} /\ PeriodosEntre(a, b) # {}
             /\ eventos_pdf[k].dia = DiaVisto(a, b)
             /\ eventos_pdf[k].periodo = PeriodoVisto(a, b)
             /\ eventos_pdf[k].dia.n \in 1..5
             /\ eventos_pdf[k].periodo.n \in 1..12
    /\ LET a == IF Len(marcas) = 0 THEN 0 ELSE marcas[Len(marcas)]
       IN  /\ dia_actual = DiaVisto(a, i_linea)
           /\ periodo_actual = PeriodoVisto(a, i_linea)
    /\ pc = "done" =>
         /\ resultado.k = "none" <=> Len(eventos_pdf) = 0
         /\ resultado.k = "list" <=> Len(eventos_pdf) > 0
         /\ resultado.k = "list" => resultado.v = eventos_pdf

\* a page gave two events, the second from headers of its own
C14_Witness ==
    /\ pc = "done" /\ resultado.k = "list" /\ Len(resultado.v) = 2
    /\ resultado.v[1].dia # resultado.v[2].dia
    /\ DiasEntre(marcas[1], marcas[2] - 1) # {}

\* the events fully entered when the session ended: those appended, and the
\* one in entry if all its four fields had been typed
Completos ==
    eventos_json \o
    (IF \A campo \in {"dia", "periodo", "asignatura", "aula"} : entrada[campo] # AbsentV
     THEN <<entrada>> ELSE <<>>)

\* how often e occurs in the list s
Veces(s, e) == Cardinality({ j \in 1..Len(s) : s[j] = e })

\* the lists s and t hold the same events, each as often
MismosEventos(s, t) ==
    /\ Len(s) = Len(t)
    /\ \A j \in 1..Len(s) : Veces(s, s[j]) = Veces(t, s[j])

\* the list is in increasing order of (dia, periodo)
EnOrden(s) ==
    \A j, h \in 1..Len(s) :
        j < h => \/ s[j].dia.n < s[h].dia.n
                 \/ (s[j].dia.n = s[h].dia.n /\ s[j].periodo.n <= s[h].periodo.n)

\* C15: once the class has been entered, Ctrl+C at any point of the entry
\* loop ends the entry and saves exactly the events fully entered before it,
\* sorted by (dia, periodo), a partially entered event being discarded; if
\* no event was fully entered, no file is written and the result is 1. (A
\* session whose write fails, result 1, is not what the claim is about.)
C15_InterruptSavesEntered ==
    (pc = "done" /\ interrumpido \in EnBucle) =>
        IF Len(Completos) = 0
        THEN archivo_json.k \in {"none", "old"} /\ codigo = 1
        ELSE \/ /\ archivo_json.k = "written"
                /\ archivo_json.clase = clase_json
                /\ MismosEventos(archivo_json.eventos, Completos)
                /\ EnOrden(archivo_json.eventos)
                /\ codigo = 0
             \/ /\ Len(eventos_json) > 0
                /\ archivo_json.k # "written"
                /\ codigo = 1

====
